---- MODULE Spec2Model ----
(***************************************************************************)
(* Grandiflora Garden Services API (src/main.py): the enquiry submission   *)
(* workflow POST /api/enquiries.  A request is validated by the            *)
(* EnquiryRequest model, persisted with create_document, and then a staff  *)
(* notification is attempted over SMTP by send_email_notification.         *)
(*                                                                         *)
(* Text values are sequences of one-character strings; Python's None (a    *)
(* missing JSON field, an unset environment variable) is the value None.   *)
(* The text of an exception is represented by its length, which is all     *)
(* that the [:200] truncations depend on.                                  *)
(***************************************************************************)
EXTENDS Integers, Sequences, FiniteSets, TLC

\* Number of POST /api/enquiries requests the platform serves (concurrently).
NumReq == 2

\* Python's None: no text value has this shape (texts hold single characters).
None == <<"None">>

Req == 1..NumReq

\* ------------------------------------------------------------------ text

Upper == <<"A","B","C","D","E","F","G","H","I","J","K","L","M",
           "N","O","P","Q","R","S","T","U","V","W","X","Y","Z">>
Lower == <<"a","b","c","d","e","f","g","h","i","j","k","l","m",
           "n","o","p","q","r","s","t","u","v","w","x","y","z">>
Digits == {"0","1","2","3","4","5","6","7","8","9"}

Range(s) == {s[i] : i \in 1..Len(s)}

IsLetter(c) == c \in Range(Upper) \cup Range(Lower)

\* str.lower() on one character
LowerChar(c) ==
  IF c \in Range(Upper)
    THEN Lower[CHOOSE i \in 1..Len(Upper) : Upper[i] = c]
    ELSE c

LowerText(s) == [i \in 1..Len(s) |-> LowerChar(s[i])]

\* str.strip(): leading and trailing blanks removed
RECURSIVE StripLeft(_)
StripLeft(s) ==
  IF s # <<>> /\ Head(s) = " " THEN StripLeft(Tail(s)) ELSE s

RECURSIVE StripRight(_)
StripRight(s) ==
  IF s # <<>> /\ s[Len(s)] = " " THEN StripRight(SubSeq(s, 1, Len(s) - 1)) ELSE s

Strip(s) == StripRight(StripLeft(s))

\* the positions of character c in s
Positions(s, c) == {i \in 1..Len(s) : s[i] = c}

\* the text before / after position i
Before(s, i) == SubSeq(s, 1, i - 1)
After(s, i) == SubSeq(s, i + 1, Len(s))

\* no "." first, last, or twice in a row
DotsWellPlaced(s) ==
  /\ s # <<>>
  /\ s[1] # "." /\ s[Len(s)] # "."
  /\ \A i \in 1..(Len(s) - 1) : ~(s[i] = "." /\ s[i + 1] = ".")

\* ------------------------------------------------------ EmailStr (line 75)

\* characters an unquoted local part may hold besides "."
LocalChar(c) == IsLetter(c) \/ c \in Digits \/ c \in {"-", "_", "+"}

LocalPartValid(s) ==
  /\ DotsWellPlaced(s)
  /\ \A i \in 1..Len(s) : LocalChar(s[i]) \/ s[i] = "."

\* a domain: dot-separated labels of letters, digits and inner hyphens, with
\* at least one period
DomainValid(s) ==
  /\ DotsWellPlaced(s)
  /\ Positions(s, ".") # {}
  /\ \A i \in 1..Len(s) : IsLetter(s[i]) \/ s[i] \in Digits \/ s[i] \in {"-", "."}
  /\ s[1] # "-" /\ s[Len(s)] # "-"
  /\ \A i \in 1..(Len(s) - 1) :
       ~(s[i] = "-" /\ s[i + 1] = ".") /\ ~(s[i] = "." /\ s[i + 1] = "-")

\* EmailStr accepts v: after stripping blanks, one "@" between a valid local
\* part and a valid domain
EmailStrValid(v) ==
  /\ v # None
  /\ LET t == Strip(v)
     IN  /\ Cardinality(Positions(t, "@")) = 1
         /\ LET at == CHOOSE i \in Positions(t, "@") : TRUE
            IN  LocalPartValid(Before(t, at)) /\ DomainValid(After(t, at))

\* the value an EmailStr field holds after validation: the normalised
\* address (blanks stripped, domain in lower case)
EmailStrValue(v) ==
  LET t == Strip(v)
      at == CHOOSE i \in Positions(t, "@") : TRUE
  IN  Before(t, at) \o <<"@">> \o LowerText(After(t, at))

\* --------------------------------------------- EnquiryRequest (lines 73-79)

\* name: str  -- any text, the empty text included; a missing field fails
StrValid(v) == v # None

\* pydantic accepts the JSON body p
EnquiryRequestValid(p) == StrValid(p.name) /\ EmailStrValid(p.email)

\* the parsed model of an accepted JSON body p; optional fields default to None
EnquiryRequest(p) ==
  [name |-> p.name, email |-> EmailStrValue(p.email),
   phone |-> p.phone, service |-> p.service,
   message |-> p.message, suburb |-> p.suburb]

\* model_dump with exclude_none=True on a model that has no message
model_dump_ExcludeNone(m) ==
  IF m.message = None
    THEN [name |-> m.name, email |-> m.email, phone |-> m.phone,
          service |-> m.service, suburb |-> m.suburb]
    ELSE [name |-> m.name, email |-> m.email, phone |-> m.phone,
          service |-> m.service, message |-> m.message, suburb |-> m.suburb]

\* payload.model_dump(): the dict of all six fields
model_dump(m) ==
  [name |-> m.name, email |-> m.email, phone |-> m.phone,
   service |-> m.service, message |-> m.message, suburb |-> m.suburb]

\* no model parsed (yet)
NoModel ==
  [name |-> None, email |-> None, phone |-> None,
   service |-> None, message |-> None, suburb |-> None]

\* ------------------------------------------------------------- inputs

Jane == <<"J","a","n","e">>
GoodEmail == <<"j","@","x",".","n","z">>
MixedCaseEmail == <<"J","@","X",".","N","Z">>
PaddedEmail == <<" ","j","@","x",".","n","z">>
NotAnEmail == <<"n","o","t","-","a","n","-","e","m","a","i","l">>
Phone == <<"0","2","1">>
Lawn == <<"L","a","w","n">>
Hello == <<"H","i">>
Town == <<"T","o","w","n">>

Body(n, e, ph, sv, ms, sb) ==
  [name |-> n, email |-> e, phone |-> ph, service |-> sv, message |-> ms, suburb |-> sb]

\* the JSON bodies submitted
Payloads ==
  { Body(Jane, GoodEmail, Phone, Lawn, Hello, Town),
    Body(Jane, MixedCaseEmail, None, Lawn, None, None),
    Body(<<>>, PaddedEmail, None, None, <<>>, Town),
    Body(None, GoodEmail, Phone, None, None, None),
    Body(Jane, None, None, Lawn, None, None),
    Body(Jane, NotAnEmail, None, None, Hello, None) }

Config(to, host, port, user, pass, from) ==
  [ENQUIRY_TO_EMAIL |-> to, SMTP_HOST |-> host, SMTP_PORT |-> port,
   SMTP_USER |-> user, SMTP_PASS |-> pass, SMTP_FROM |-> from]

Staff == <<"s","@","g",".","n","z">>
Relay == <<"m","x">>
User == <<"u">>
Secret == <<"p","w">>

\* the process environments the service is started in (ENQUIRY_TO_EMAIL and
\* SMTP_FROM only fill the headers of the message)
Environments ==
  { Config(None, None, None, None, None, None),
    Config(None, Relay, None, User, Secret, None),
    Config(Staff, Relay, <<" ","2","5">>, User, Secret, Staff),
    Config(None, Relay, <<"a","b","c">>, User, Secret, None),
    Config(None, None, <<>>, User, Secret, None),
    Config(Staff, Relay, <<"4","6","5">>, User, <<>>, None) }

\* lengths of the texts of the exceptions the collaborators raise
ErrLens == {40, 250}

\* ----------------------------------------------------- os.getenv and int

\* os.getenv(key, default)
getenv(e, key, default) == IF e[key] = None THEN default ELSE e[key]

\* int(text) succeeds: blanks around an optional sign and decimal digits
IntParses(t) ==
  LET s == Strip(t)
      d == IF s # <<>> /\ s[1] \in {"+", "-"} THEN Tail(s) ELSE s
  IN  d # <<>> /\ \A i \in 1..Len(d) : d[i] \in Digits

DefaultSmtpPort == <<"5","8","7">>

\* len(str(e)) of the ValueError of int(t):
\* "invalid literal for int() with base 10: " and repr(t)
IntErrorPrefixLen == 40
IntErrorLen(t) == IntErrorPrefixLen + Len(t) + 2

\* not x, for a text or None
Falsy(x) == x = None \/ x = <<>>

\* lines 83-88 complete without raising
ConfigReads(e) == IntParses(getenv(e, "SMTP_PORT", DefaultSmtpPort))

\* line 108
NotConfigured(e) ==
  Falsy(e.SMTP_HOST) \/ Falsy(e.SMTP_USER) \/ Falsy(e.SMTP_PASS)

\* str(e)[:200]
ReasonLimit == 200
Truncate(n) == IF n > ReasonLimit THEN ReasonLimit ELSE n

\* len("SMTP not configured in environment. Stored enquiry in database.")
NotConfiguredLen == 63

NotConfiguredStatus ==
  [sent |-> FALSE, reason |-> "SMTP not configured in environment. Stored enquiry in database.",
   len |-> NotConfiguredLen]
SentStatus == [sent |-> TRUE]
FailedStatus(n) == [sent |-> FALSE, reason |-> "str(e)", len |-> Truncate(n)]
NoStatus == [none |-> TRUE]

\* ------------------------------------------------------------ responses

NoResponse == [status |-> 0]
NoId == <<>>
Http422 == [status |-> 422]
\* line 147
Http500(n) == [status |-> 500, detail |-> "Failed to submit enquiry: ", len |-> Truncate(n)]
\* lines 140-145
Success(id, email) ==
  [status |-> 200, success |-> TRUE, id |-> id, email |-> email,
   message |-> "Thanks! Your enquiry has been submitted. We'll be in touch shortly."]

\* ---------------------------------------------------------------- state

VARIABLES
  env,           \* os.environ of the process
  store,         \* the "enquiry" collection: a set of [id, doc]
  pc,            \* where each request stands
  body,          \* the JSON body each request submitted
  payload,       \* the EnquiryRequest the handler was called with
  dbCalls,       \* calls of create_document made by the request
  dbResult,      \* "none", "ok" or "raised"
  doc_id,        \* create_enquiry's doc_id (NoId: unassigned)
  notify,        \* send_email_notification: "not_called", "running", "returned", "raised"
  conn,          \* the request's smtplib.SMTP connection: "none", "open", "closed"
  attempts,      \* SMTP connections the request tried to open
  sends,         \* sendmail calls that delivered the message
  exc,           \* the class of the exception raised inside the with block, or "none"
  email_status,  \* create_enquiry's email_status
  response       \* the HTTP response (status 0: not answered yet)

vars == <<env, store, pc, body, payload, dbCalls, dbResult, doc_id, notify,
          conn, attempts, sends, exc, email_status, response>>

Init ==
  /\ env \in Environments
  /\ store = {}
  /\ pc = [r \in Req |-> "idle"]
  /\ body = [r \in Req |-> NoModel]
  /\ payload = [r \in Req |-> NoModel]
  /\ dbCalls = [r \in Req |-> 0]
  /\ dbResult = [r \in Req |-> "none"]
  /\ doc_id = [r \in Req |-> NoId]
  /\ notify = [r \in Req |-> "not_called"]
  /\ conn = [r \in Req |-> "none"]
  /\ attempts = [r \in Req |-> 0]
  /\ sends = [r \in Req |-> 0]
  /\ exc = [r \in Req |-> "none"]
  /\ email_status = [r \in Req |-> NoStatus]
  /\ response = [r \in Req |-> NoResponse]

dbVars == <<store, dbCalls, dbResult, doc_id>>
smtpVars == <<conn, attempts, sends, exc>>

\* ------------------------------------------------- POST /api/enquiries

\* PostEnquiry with a handler that takes the raw body (payload: dict) and so
\* runs on bodies pydantic would reject
PostEnquiry_Unvalidated(r, p) ==
  /\ pc[r] = "idle"
  /\ body' = [body EXCEPT ![r] = p]
  /\ payload' = [payload EXCEPT ![r] = p]
  /\ pc' = [pc EXCEPT ![r] = "create_document"]
  /\ UNCHANGED <<env, response, dbVars, notify, smtpVars, email_status>>

\* The request arrives with JSON body p.  FastAPI builds the EnquiryRequest
\* parameter; a body pydantic rejects is answered 422 and create_enquiry is
\* not called.
PostEnquiry(r, p) ==
  /\ pc[r] = "idle"
  /\ body' = [body EXCEPT ![r] = p]
  /\ IF EnquiryRequestValid(p)
       THEN /\ payload' = [payload EXCEPT ![r] = EnquiryRequest(p)]
            /\ pc' = [pc EXCEPT ![r] = "create_document"]
            /\ UNCHANGED response
       ELSE /\ response' = [response EXCEPT ![r] = Http422]
            /\ pc' = [pc EXCEPT ![r] = "done"]
            /\ UNCHANGED payload
  /\ UNCHANGED <<env, dbVars, notify, smtpVars, email_status>>

\* create_document("enquiry", data) in the store: the document is inserted and
\* its identifier returned, or the call raises and nothing is inserted.  The
\* store generates the identifier; it is opaque and unique to the insertion,
\* here the pair of the request and the number of its call.
InsertedId(r) == <<r, dbCalls[r] + 1>>
Inserted(r, data) == store \cup {[id |-> InsertedId(r), doc |-> data]}

\* CreateDocument with the storage exception swallowed around line 135 alone,
\* so the handler carries on to the notification
CreateDocument_SwallowError(r) ==
  /\ pc[r] = "create_document"
  /\ dbCalls' = [dbCalls EXCEPT ![r] = @ + 1]
  /\ \/ /\ store' = Inserted(r, model_dump(payload[r]))
        /\ doc_id' = [doc_id EXCEPT ![r] = InsertedId(r)]
        /\ dbResult' = [dbResult EXCEPT ![r] = "ok"]
     \/ /\ dbResult' = [dbResult EXCEPT ![r] = "raised"]
        /\ UNCHANGED <<store, doc_id>>
  /\ pc' = [pc EXCEPT ![r] = "send_email_notification"]
  /\ UNCHANGED <<env, body, payload, notify, smtpVars, email_status, response>>

\* line 135, with the except clause of lines 146-147 when the call raises
CreateDocument(r) ==
  /\ pc[r] = "create_document"
  /\ dbCalls' = [dbCalls EXCEPT ![r] = @ + 1]
  /\ \/ /\ store' = Inserted(r, model_dump(payload[r]))
        /\ doc_id' = [doc_id EXCEPT ![r] = InsertedId(r)]
        /\ dbResult' = [dbResult EXCEPT ![r] = "ok"]
        /\ pc' = [pc EXCEPT ![r] = "send_email_notification"]
        /\ UNCHANGED response
     \/ /\ \E n \in ErrLens : response' = [response EXCEPT ![r] = Http500(n)]
        /\ dbResult' = [dbResult EXCEPT ![r] = "raised"]
        /\ pc' = [pc EXCEPT ![r] = "done"]
        /\ UNCHANGED <<store, doc_id>>
  /\ UNCHANGED <<env, body, payload, notify, smtpVars, email_status>>

\* line 138 and lines 83-112: the call of send_email_notification up to the
\* configuration gate.  int() of a malformed SMTP_PORT raises outside the try
\* block; the exception leaves the function and reaches lines 146-147.
NotifyConfig(r) ==
  /\ pc[r] = "send_email_notification"
  /\ IF ~ConfigReads(env)
       THEN /\ notify' = [notify EXCEPT ![r] = "raised"]
            /\ response' = [response EXCEPT ![r] =
                              Http500(IntErrorLen(getenv(env, "SMTP_PORT", DefaultSmtpPort)))]
            /\ pc' = [pc EXCEPT ![r] = "done"]
            /\ UNCHANGED email_status
       ELSE IF NotConfigured(env)
         THEN /\ notify' = [notify EXCEPT ![r] = "returned"]
              /\ email_status' = [email_status EXCEPT ![r] = NotConfiguredStatus]
              /\ pc' = [pc EXCEPT ![r] = "respond"]
              /\ UNCHANGED response
         ELSE /\ notify' = [notify EXCEPT ![r] = "running"]
              /\ pc' = [pc EXCEPT ![r] = "smtp_connect"]
              /\ UNCHANGED <<response, email_status>>
  /\ UNCHANGED <<env, body, payload, dbVars, smtpVars>>

\* an exception of the try block, its text n characters long, is caught:
\* lines 127-128 (the exception is dropped when the except clause ends)
Caught(r, n) ==
  /\ email_status' = [email_status EXCEPT ![r] = FailedStatus(n)]
  /\ exc' = [exc EXCEPT ![r] = "none"]
  /\ notify' = [notify EXCEPT ![r] = "returned"]
  /\ pc' = [pc EXCEPT ![r] = "respond"]

\* SmtpConnect with one more try after a failed connection
SmtpConnect_Retry(r) ==
  /\ pc[r] = "smtp_connect"
  /\ attempts' = [attempts EXCEPT ![r] = @ + 1]
  /\ \/ /\ conn' = [conn EXCEPT ![r] = "open"]
        /\ pc' = [pc EXCEPT ![r] = "smtp_starttls"]
        /\ UNCHANGED <<email_status, notify, exc>>
     \/ /\ attempts[r] = 0
        /\ UNCHANGED <<conn, pc, email_status, notify, exc>>
     \/ /\ attempts[r] > 0
        /\ \E n \in ErrLens : Caught(r, n)
        /\ UNCHANGED conn
  /\ UNCHANGED <<env, body, payload, dbVars, sends, response>>

\* line 121: smtplib.SMTP(smtp_host, smtp_port, timeout=10) connects.  When the
\* constructor raises (refused, unreachable, timed out, bad greeting) it has
\* closed its socket and the with block is not entered.
SmtpConnect(r) ==
  /\ pc[r] = "smtp_connect"
  /\ attempts' = [attempts EXCEPT ![r] = @ + 1]
  /\ \/ /\ conn' = [conn EXCEPT ![r] = "open"]
        /\ pc' = [pc EXCEPT ![r] = "smtp_starttls"]
        /\ UNCHANGED <<email_status, notify, exc>>
     \/ /\ \E n \in ErrLens : Caught(r, n)
        /\ UNCHANGED conn
  /\ UNCHANGED <<env, body, payload, dbVars, sends, response>>

\* what a step of the with block raises: the relay refuses or answers badly
\* (an SMTPException), or does not answer within the timeout of 10 seconds
SmtpErrors == {"SMTPException", "timeout"}

\* a step of the with block raises: control goes to SMTP.__exit__
Raise(r, e) ==
  /\ exc' = [exc EXCEPT ![r] = e]
  /\ pc' = [pc EXCEPT ![r] = "smtp_exit"]

\* line 122
SmtpStartTLS(r) ==
  /\ pc[r] = "smtp_starttls"
  /\ \/ pc' = [pc EXCEPT ![r] = "smtp_login"] /\ UNCHANGED exc
     \/ \E e \in SmtpErrors : Raise(r, e)
  /\ UNCHANGED <<env, body, payload, dbVars, notify, conn, attempts, sends,
                 email_status, response>>

\* line 123
SmtpLogin(r) ==
  /\ pc[r] = "smtp_login"
  /\ \/ pc' = [pc EXCEPT ![r] = "smtp_sendmail"] /\ UNCHANGED exc
     \/ \E e \in SmtpErrors : Raise(r, e)
  /\ UNCHANGED <<env, body, payload, dbVars, notify, conn, attempts, sends,
                 email_status, response>>

\* line 124
SmtpSendmail(r) ==
  /\ pc[r] = "smtp_sendmail"
  /\ \/ /\ sends' = [sends EXCEPT ![r] = @ + 1]
        /\ pc' = [pc EXCEPT ![r] = "smtp_exit"]
        /\ UNCHANGED exc
     \/ /\ \E e \in SmtpErrors : Raise(r, e)
        /\ UNCHANGED sends
  /\ UNCHANGED <<env, body, payload, dbVars, notify, conn, attempts,
                 email_status, response>>

\* SmtpExit without the with statement: server.quit() as the last line of the
\* block, skipped when a step raises
SmtpExit_NoWith(r) ==
  /\ pc[r] = "smtp_exit"
  /\ IF exc[r] = "none"
       THEN /\ conn' = [conn EXCEPT ![r] = "closed"]
            /\ email_status' = [email_status EXCEPT ![r] = SentStatus]
            /\ notify' = [notify EXCEPT ![r] = "returned"]
            /\ pc' = [pc EXCEPT ![r] = "respond"]
            /\ UNCHANGED exc
       ELSE /\ \E n \in ErrLens : Caught(r, n)
            /\ UNCHANGED conn
  /\ UNCHANGED <<env, body, payload, dbVars, attempts, sends, response>>

\* the end of the with block: SMTP.__exit__ quits and closes the connection,
\* then line 126 returns, or lines 127-128 catch the exception of the block
SmtpExit(r) ==
  /\ pc[r] = "smtp_exit"
  /\ conn' = [conn EXCEPT ![r] = "closed"]
  /\ IF exc[r] = "none"
       THEN /\ email_status' = [email_status EXCEPT ![r] = SentStatus]
            /\ notify' = [notify EXCEPT ![r] = "returned"]
            /\ pc' = [pc EXCEPT ![r] = "respond"]
            /\ UNCHANGED exc
       ELSE \E n \in ErrLens : Caught(r, n)
  /\ UNCHANGED <<env, body, payload, dbVars, attempts, sends, response>>

\* lines 140-145
Respond(r) ==
  /\ pc[r] = "respond"
  /\ response' = [response EXCEPT ![r] = Success(doc_id[r], email_status[r])]
  /\ pc' = [pc EXCEPT ![r] = "done"]
  /\ UNCHANGED <<env, body, payload, dbVars, notify, smtpVars, email_status>>

Next ==
  \E r \in Req :
    \/ \E p \in Payloads : PostEnquiry(r, p)
    \/ CreateDocument(r)
    \/ NotifyConfig(r)
    \/ SmtpConnect(r)
    \/ SmtpStartTLS(r)
    \/ SmtpLogin(r)
    \/ SmtpSendmail(r)
    \/ SmtpExit(r)
    \/ Respond(r)

Spec == Init /\ [][Next]_vars

\* --------------------------------------------------------------- claims

Answered(r) == pc[r] = "done"
NotifyEnded(r) == notify[r] \in {"returned", "raised"}
StoredFor(r) == {d \in store : d.id = doc_id[r]}
Rejected(r) ==
  /\ Answered(r) /\ response[r].status = 422
  /\ dbCalls[r] = 0 /\ notify[r] = "not_called" /\ attempts[r] = 0 /\ sends[r] = 0

\* C1: once create_document has returned an identifier, the request ends with
\* the success response carrying that identifier and the notification result,
\* whatever the environment and the relay do.
C1_NotificationNeverFailsRequest ==
  \A r \in Req :
    (dbResult[r] = "ok" /\ Answered(r)) =>
      /\ response[r].status = 200
      /\ response[r] = Success(doc_id[r], email_status[r])

\* C2: send_email_notification never raises: whenever it has ended it has
\* returned {sent: true} or {sent: false, reason: at most 200 characters}.
C2_NotificationNeverRaises ==
  \A r \in Req :
    /\ notify[r] # "raised"
    /\ notify[r] = "returned" =>
         \/ email_status[r] = SentStatus
         \/ /\ email_status[r].sent = FALSE
            /\ email_status[r].len <= ReasonLimit

\* C3: when create_document raises, the request is answered 500 and
\* send_email_notification is not called: no connection attempt, no email.
C3_StorageFailureSkipsNotification ==
  \A r \in Req :
    dbResult[r] = "raised" =>
      /\ Answered(r) /\ response[r].status = 500
      /\ notify[r] = "not_called" /\ conn[r] = "none"
      /\ attempts[r] = 0 /\ sends[r] = 0

C3_Witness ==
  \E r \in Req : dbResult[r] = "raised" /\ Answered(r) /\ dbCalls[r] = 1

\* C4: a body without name, without email or with a malformed email is
\* rejected with 422 before any side effect: create_document is not called
\* and no email is attempted.
C4_InvalidRejectedBeforeSideEffects ==
  \A r \in Req :
    (pc[r] # "idle" /\ (body[r].name = None \/ ~EmailStrValid(body[r].email))) =>
      Rejected(r)

C4_Witness ==
  \E r \in Req : Answered(r) /\ body[r].email = NotAnEmail /\ response[r].status = 422

\* C5: with SMTP_HOST, SMTP_USER or SMTP_PASS absent, send_email_notification
\* returns sent = false and opens no connection, whatever the other variables.
C5_UnconfiguredReturnsNotSent ==
  \A r \in Req :
    (NotConfigured(env) /\ NotifyEnded(r)) =>
      /\ notify[r] = "returned"
      /\ email_status[r].sent = FALSE
      /\ attempts[r] = 0 /\ conn[r] = "none"

\* C6: a request makes at most one create_document call and at most one SMTP
\* connection attempt and one sendmail, and the notification starts only after
\* create_document has returned and the document is in the store.
C6_SequentialAtMostOnce ==
  \A r \in Req :
    /\ dbCalls[r] <= 1 /\ attempts[r] <= 1 /\ sends[r] <= 1
    /\ (notify[r] # "not_called" \/ attempts[r] > 0 \/ conn[r] # "none") =>
         (dbResult[r] = "ok" /\ StoredFor(r) # {})

C6_Witness ==
  \E r \in Req : Answered(r) /\ dbCalls[r] = 1 /\ attempts[r] = 1 /\ sends[r] = 1

\* C7: every connection send_email_notification opened is closed when the
\* function has ended, whether the block ended normally or by an exception.
C7_ConnectionReleased ==
  \A r \in Req :
    /\ NotifyEnded(r) => conn[r] # "open"
    /\ (NotifyEnded(r) /\ attempts[r] > 0 /\ conn[r] = "none") =>
         email_status[r].sent = FALSE

C7_Witness ==
  \E r \in Req :
    notify[r] = "returned" /\ conn[r] = "closed" /\ email_status[r].sent = FALSE

\* the record a stored request left in the store is rec, and a success
\* response names that record's identifier
RecordIs(r, rec) ==
  /\ \E d \in StoredFor(r) : d.doc = rec
  /\ \A d \in StoredFor(r) : d.doc = rec
  /\ (Answered(r) /\ response[r].status = 200) =>
       \E d \in StoredFor(r) : response[r].id = d.id

\* C8 (as claimed): for a valid body the store accepted, the stored record
\* carries exactly the submitted name, email, phone, service, message and
\* suburb, and the success response names the record's identifier.
C8_RecordIsSubmittedBody ==
  \A r \in Req :
    (body[r].name # None /\ EmailStrValid(body[r].email) /\ dbResult[r] = "ok") =>
      RecordIs(r, body[r])

\* C8 (amended): the stored record carries the submitted name, phone, service,
\* message and suburb and the submitted email in normalised form (blanks
\* around it removed, domain in lower case), and the success response names
\* the record's identifier.
C8_RecordIsNormalisedBody ==
  \A r \in Req :
    (body[r].name # None /\ EmailStrValid(body[r].email) /\ dbResult[r] = "ok") =>
      RecordIs(r, [body[r] EXCEPT !.email =
                     Strip(Before(@, CHOOSE i \in Positions(@, "@") : TRUE))
                       \o <<"@">> \o
                     LowerText(Strip(After(@, CHOOSE i \in Positions(@, "@") : TRUE)))])

C8_Witness ==
  \E r \in Req :
    /\ Answered(r) /\ response[r].status = 200
    /\ body[r].email = MixedCaseEmail
    /\ \E d \in StoredFor(r) : d.doc.email # body[r].email /\ d.doc.name = body[r].name

\* C9: a body whose name is the empty text is rejected like a missing name,
\* and no record with an empty name is written to the store.
C9_EmptyNameRejected ==
  /\ \A r \in Req : (pc[r] # "idle" /\ body[r].name = <<>>) => Rejected(r)
  /\ \A d \in store : d.doc.name # <<>>

\* C10: a request answered 500 left no record in the store, and once all
\* requests are answered the store holds as many records as there were
\* success responses.
C10_FailureLeavesNoRecord ==
  /\ \A r \in Req :
       (Answered(r) /\ response[r].status = 500) =>
         (dbResult[r] = "raised" /\ StoredFor(r) = {})
  /\ (\A r \in Req : pc[r] \in {"idle", "done"}) =>
       Cardinality(store) = Cardinality({r \in Req : response[r].status = 200})

====
